---------------------------- MODULE Spec2Model ----------------------------
(***************************************************************************)
(* Model of the BookFinder component (src/src/component/Home.jsx): the     *)
(* search / pagination controller made of React state, the debounce timer, *)
(* the IntersectionObserver used for infinite scroll, and the requests to  *)
(* the Open Library search endpoint that are in flight.                    *)
(*                                                                         *)
(* One action is one event-loop task: a DOM event handler, the timer       *)
(* callback, the observer callback, or the continuation of performSearch   *)
(* after its awaits.  All setState calls of one task are committed in one  *)
(* render (React batches them), and the effects of that render run before  *)
(* the next task, so an effect is part of the action that triggers it.     *)
(*                                                                         *)
(* Texts are sequences of one-character strings so that trim() is          *)
(* computed, not assumed.                                                  *)
(***************************************************************************)
EXTENDS Integers, Sequences, FiniteSets, TLC

VARIABLES
    searchQuery,   \* useState('')        line 5
    searchType,    \* useState('title')   line 6
    books,         \* useState([])        line 7
    loading,       \* useState(false)     line 8
    loadingMore,   \* useState(false)     line 9
    error,         \* useState('')        line 10
    favorites,     \* useState([])        line 12
    filters,       \* useState({...})     line 14
    currentPage,   \* useState(0)         line 19
    hasMore,       \* useState(false)     line 20
    totalBooks,    \* useState(0)         line 21
    debounceTimer, \* useRef(null): the handle it holds, and the timeouts that are pending
    observer,      \* useRef(null): the IntersectionObserver and what its callback closed over
    inflight,      \* requests awaiting fetch()/response.json() inside performSearch
    dispatched,    \* history: number of requests sent so far (the last request's id)
    session,       \* history: the latest new-session request that was sent
    progress,      \* history: what was received since that request was sent
    edits,         \* history: number of changes of the search text
    changes,       \* history: number of changes of the search type and filters
    scope          \* how many requests, text changes and settings changes a run explores

uiVars    == <<searchQuery, searchType, filters>>
resVars   == <<books, loading, loadingMore, error, currentPage, hasMore, totalBooks>>
netVars   == <<inflight, dispatched, session, progress>>
cntVars   == <<edits, changes, scope>>
vars      == <<searchQuery, searchType, books, loading, loadingMore, error, favorites,
               filters, currentPage, hasMore, totalBooks, debounceTimer, observer,
               inflight, dispatched, session, progress, edits, changes, scope>>

----------------------------------------------------------------------------
(* Bounds of the model *)

\* Requests the component may send in one behaviour.
MaxRequests == 3

\* Changes of the search text, and of the search type and filters, in one behaviour.
MaxEdits == 2
MaxChanges == 2

\* The scope of SettingsSpec: requests and changes of the search text.
MaxSettingsRequests == 1
MaxSettingsEdits == 1

\* The scope of FairSpec: requests and changes of the search text.
MaxFairRequests == 2
MaxFairEdits == 2

\* The scope of FavoritesSpec: requests and changes of the search text, and how
\* many of the result cards have their heart clicked.
MaxFavRequests == 1
MaxFavEdits == 1
MaxCards == 3

\* The scope of DeepSpec: requests and changes of the search text.
MaxDeepRequests == 4
MaxDeepEdits == 1

\* Texts the user can put in the search box: empty, whitespace only, two terms.
Texts == { <<>>, <<" ">>, <<"a">>, <<"b">> }

\* Values the user picks in the type select and the filter controls.
TypeChoices == { "title", "general" }
LanguageChoices == { "", "eng" }
YearChoices == { "", "1965" }

----------------------------------------------------------------------------
(* Constants of the program *)

limit == 20

ErrNone       == ""
ErrValidation == "Please enter a search term"
ErrNoResults  == "No books found matching your search criteria"
ErrFailed     == "Failed to search books. Please check your internet connection and try again."

InitialFilters == [language |-> "", publishYear |-> ""]

\* debounceTimer.current is the handle of the timeout set last (0: null);
\* pending are the timeouts of the window that were set and neither ran nor
\* were cleared, each with the query its callback closed over.
NoTimer == [current |-> 0, pending |-> {}]
NoSession == [id |-> 0]

\* History of the current session (since the latest new-session request was
\* sent).  inOrder: what was received is exactly this session's page 0 and then
\* continuations sent after it, all with docs, and the results were not emptied
\* in between; pages: how many responses that is; docs: their docs, in order of
\* arrival.  lastLen, lastPage: the size and the index of the page received
\* last for a request of this session (0 and -1: none yet).
NoProgress ==
    [inOrder |-> TRUE, pages |-> 0, docs |-> <<>>, lastLen |-> 0, lastPage |-> -1,
     after |-> ""]
Taint(p) == [p EXCEPT !.inOrder = FALSE, !.pages = 0, !.docs = <<>>]

----------------------------------------------------------------------------
(* Pure helpers *)

IsSpace(c) == c = " "

RECURSIVE TrimStart(_)
TrimStart(s) == IF s # <<>> /\ IsSpace(Head(s)) THEN TrimStart(Tail(s)) ELSE s

RECURSIVE TrimEnd(_)
TrimEnd(s) ==
    IF s # <<>> /\ IsSpace(s[Len(s)]) THEN TrimEnd(SubSeq(s, 1, Len(s) - 1)) ELSE s

\* String.prototype.trim
Trim(s) == TrimEnd(TrimStart(s))

\* JavaScript truthiness of a string
Truthy(s) == s # <<>>

Min(a, b) == IF a < b THEN a ELSE b

\* The switch on searchType (lines 103-118): the name of the query parameter.
QueryParam(type) ==
    CASE type = "title"   -> "title"
      [] type = "author"  -> "author"
      [] type = "subject" -> "subject"
      [] type = "isbn"    -> "isbn"
      [] OTHER            -> "q"

\* The request URL (lines 101-124), as the record of its parameters.  A filter
\* that is the empty string is left out of the URL, shown here as "".
BuildUrl(query, page, type, flt) ==
    [ param    |-> QueryParam(type),
      text     |-> query,
      language |-> flt.language,
      year     |-> flt.publishYear,
      limit    |-> limit,
      offset   |-> page * limit ]

----------------------------------------------------------------------------
(* The catalog (external): what the search endpoint answers *)

\* The numbers of works the catalog can report for a text (numFound): "a" is a
\* text of three pages; another text has no match, one short page or exactly
\* one full page.
CatalogTotals(text) == IF text = <<"a">> THEN {45} ELSE {0, 5, 20}

\* The catalog's i-th work for a text; keys are unique within one query.
Work(text, i) == [key |-> <<text, i>>]

\* docs of a successful answer to url when total works match: the works
\* offset .. offset+limit-1.
CatalogDocs(url, total) ==
    LET n     == IF url.offset >= total THEN 0 ELSE Min(url.limit, total - url.offset)
    IN  [j \in 1..n |-> Work(url.text, url.offset + j - 1)]

\* What a request can resolve to: a rejected fetch / non-ok status / unparsable
\* body ("fail"), a body without docs ("nodocs"), or a result envelope ("ok").
Outcomes == { "ok", "nodocs", "fail" }

Response(url, outcome, total) ==
    [ outcome  |-> outcome,
      docs     |-> IF outcome = "ok" THEN CatalogDocs(url, total) ELSE <<>>,
      numFound |-> IF outcome = "ok" THEN total ELSE 0 ]

\* Everything a request for url can resolve to.
Answers(url) ==
    { Response(url, outcome, total) :
        outcome \in Outcomes, total \in CatalogTotals(url.text) }

----------------------------------------------------------------------------
(* Initial state: the first render, and its effects (lines 27-30, 46-53, 63-77) *)

\* What the observer callback created by a render closes over: loadMoreBooks of
\* that render (searchQuery, currentPage) and its performSearch (searchType,
\* filters).  observing: the observer was given the trigger element that is
\* mounted now (loadMoreTrigger.current was set when the effect ran).
Closure(observing, query, page, type, flt) ==
    [ observing |-> observing, query |-> query, page |-> page,
      searchType |-> type, filters |-> flt ]

InitIn(sc) ==
    /\ searchQuery = <<>>
    /\ searchType = "title"
    /\ books = <<>>
    /\ loading = FALSE
    /\ loadingMore = FALSE
    /\ error = ErrNone
    /\ favorites = <<>>
    /\ filters = InitialFilters
    /\ currentPage = 0
    /\ hasMore = FALSE
    /\ totalBooks = 0
    /\ debounceTimer = NoTimer
    /\ observer = Closure(FALSE, <<>>, 0, "title", InitialFilters)
    /\ inflight = {}
    /\ dispatched = 0
    /\ session = NoSession
    /\ progress = Taint(NoProgress)
    /\ edits = 0
    /\ changes = 0
    /\ scope = sc

Init == InitIn([requests |-> MaxRequests, edits |-> MaxEdits, changes |-> 0])

----------------------------------------------------------------------------
(* The infinite-scroll effect (lines 63-82), run after a render *)

\* The trigger element (line 596) is rendered inside the results block, that is
\* when books.length > 0 (line 583).
TriggerMounted(b) == b # <<>>

\* The effect depends on [hasMore, loadingMore, loading].  When one of them
\* changed, the old observer is disconnected and a new one, closing over the new
\* render, observes the trigger element if it is mounted.  Otherwise the old
\* observer (and its closure) stays; it keeps observing only while the element
\* it was given stays mounted.
ObserverEffect ==
    observer' =
        IF <<hasMore', loadingMore', loading'>> # <<hasMore, loadingMore, loading>>
        THEN Closure(TriggerMounted(books'), searchQuery', currentPage',
                     searchType', filters')
        ELSE [observer EXCEPT
                !.observing = @ /\ TriggerMounted(books) /\ TriggerMounted(books')]

----------------------------------------------------------------------------
(* performSearch (lines 84-158) *)

Request(query, page, isNewSearch, type, flt) ==
    [ id          |-> dispatched + 1,
      url         |-> BuildUrl(query, page, type, flt),
      page        |-> page,
      isNewSearch |-> isNewSearch ]

\* A guard that forgets trim(): whitespace-only text passes.
IsBlankNoTrim(query) == query = <<>>

\* Lines 85-88: the guard on the query text.
IsBlank(query) == Trim(query) = <<>>

\* Lines 85-126: performSearch up to its first await.  type and flt are the
\* searchType and filters of the render whose performSearch is called.
PerformSearch(query, page, isNewSearch, type, flt) ==
    IF IsBlank(query)
    THEN /\ error' = ErrValidation
         /\ UNCHANGED <<books, loading, loadingMore, currentPage, hasMore, totalBooks>>
         /\ UNCHANGED netVars
    ELSE /\ dispatched < scope.requests
         /\ IF isNewSearch
            THEN /\ loading' = TRUE
                 /\ books' = <<>>
                 /\ currentPage' = 0
                 /\ UNCHANGED loadingMore
            ELSE /\ loadingMore' = TRUE
                 /\ UNCHANGED <<loading, books, currentPage>>
         /\ error' = ErrNone
         /\ UNCHANGED <<hasMore, totalBooks>>
         /\ LET req == Request(query, page, isNewSearch, type, flt)
            IN  /\ inflight' = inflight \cup {req}
                /\ dispatched' = dispatched + 1
                /\ session' = IF isNewSearch THEN req ELSE session
                /\ progress' = IF isNewSearch
                               THEN [NoProgress EXCEPT !.after = error]
                               ELSE progress

\* A rule that looks at the size of the page only.
HasMoreAfterFullPage(docs, page, numFound) == Len(docs) = limit

\* Line 143.
HasMoreAfter(docs, page, numFound) ==
    Len(docs) = limit /\ (page + 1) * limit < numFound

\* A merge that puts the new page in front of the accumulated records.
BooksAfterPrepended(prevBooks, docs, isNewSearch) ==
    IF isNewSearch THEN docs ELSE docs \o prevBooks

\* Lines 136-140.
BooksAfter(prevBooks, docs, isNewSearch) ==
    IF isNewSearch THEN docs ELSE prevBooks \o docs

\* The history after request req resolved to resp.
ProgressAfter(req, resp) ==
    LET ofSession == req.id >= session.id
        inOrder   == /\ progress.inOrder
                     /\ ofSession
                     /\ resp.outcome = "ok"
                     /\ req.isNewSearch <=> progress.pages = 0
    IN  [ after    |-> progress.after,
          inOrder  |-> inOrder,
          pages    |-> IF inOrder THEN progress.pages + 1 ELSE 0,
          docs     |-> IF inOrder THEN progress.docs \o resp.docs ELSE <<>>,
          lastLen  |-> IF ofSession /\ resp.outcome = "ok"
                       THEN Len(resp.docs) ELSE progress.lastLen,
          lastPage |-> IF ofSession /\ resp.outcome = "ok"
                       THEN req.page ELSE progress.lastPage ]

\* The message set whenever the page has no records, new search or not.
ErrorAfterAnyEmpty(shown, req, resp) ==
    CASE resp.outcome = "ok"     -> IF Len(resp.docs) = 0 THEN ErrNoResults ELSE shown
      [] resp.outcome = "nodocs" -> ErrNoResults
      [] OTHER                   -> ErrFailed

\* Lines 145-153: the message shown after req resolved to resp, shown being
\* the one before: 'No books found' for a new search without records (an
\* empty docs, or no docs at all), 'Failed to fetch' when the try block threw.
ErrorAfter(shown, req, resp) ==
    CASE resp.outcome = "ok" ->
              IF Len(resp.docs) = 0 /\ req.isNewSearch THEN ErrNoResults ELSE shown
      [] resp.outcome = "nodocs" ->
              IF req.isNewSearch THEN ErrNoResults ELSE shown
      [] OTHER -> ErrFailed

\* A finally block that forgets the flag of a new search.
FinallyOnlyLoadingMore == loadingMore' = FALSE /\ UNCHANGED loading

\* Lines 154-157: finally { setLoading(false); setLoadingMore(false) }.
Finally == loading' = FALSE /\ loadingMore' = FALSE

\* Lines 126-157: performSearch from its awaits on, for request req that
\* resolves to resp.
Resume(req, resp) ==
    /\ error' = ErrorAfter(error, req, resp)
    /\ IF resp.outcome = "ok"
       THEN /\ totalBooks' = resp.numFound
            /\ books' = BooksAfter(books, resp.docs, req.isNewSearch)
            /\ currentPage' = req.page
            /\ hasMore' = HasMoreAfter(resp.docs, req.page, resp.numFound)
       ELSE UNCHANGED <<books, currentPage, hasMore, totalBooks>>
    /\ Finally
    /\ inflight' = inflight \ {req}
    /\ progress' = ProgressAfter(req, resp)
    /\ UNCHANGED <<dispatched, session>>

----------------------------------------------------------------------------
(* The debounce timer and the effect on searchQuery (lines 33-60) *)

\* A clearing that only forgets the handle: the timeout stays pending.
ClearPendingForgotten(timer) == [timer EXCEPT !.current = 0]

\* Lines 34-36 and 56-58: if (debounceTimer.current) clearTimeout(debounceTimer.current).
ClearPending(timer) ==
    IF timer.current # 0
    THEN [timer EXCEPT !.pending = { t \in @ : t.id # timer.current }]
    ELSE timer

\* A debouncedSearch that sets the timeout and does not keep its handle.
DebouncedSearchHandleLost(timer, query, handle) ==
    [ current |-> timer.current,
      pending |-> ClearPending(timer).pending \cup {[id |-> handle, query |-> query]} ]

\* Lines 33-43: debouncedSearch(query); handle is what setTimeout returns.
DebouncedSearch(timer, query, handle) ==
    [ current |-> handle,
      pending |-> ClearPending(timer).pending \cup {[id |-> handle, query |-> query]} ]

\* The handle setTimeout returns: timeouts are only set after a change made in
\* the page, so the number of changes made so far numbers them.
NewHandle == edits' + changes'

\* Dependencies of the effect that also depend on the settings.
QueryEffectDepsWithSettings == <<searchQuery, searchType, filters>>

\* Line 60: the dependencies of the effect (debouncedSearch never changes).
QueryEffectDeps == <<searchQuery>>

\* Lines 46-60, after a render: when a dependency changed, the cleanup of the
\* previous run clears the timeout, then the text is handed to debouncedSearch
\* or, when it is empty, the results are emptied.
QueryEffect ==
    IF QueryEffectDeps' # QueryEffectDeps
    THEN IF Truthy(searchQuery')
         THEN /\ debounceTimer' =
                     DebouncedSearch(ClearPending(debounceTimer), searchQuery', NewHandle)
              /\ UNCHANGED <<books, hasMore, totalBooks, progress>>
         ELSE /\ debounceTimer' = ClearPending(debounceTimer)
              /\ books' = <<>>
              /\ hasMore' = FALSE
              /\ totalBooks' = 0
              /\ progress' = Taint(progress)
    ELSE UNCHANGED <<debounceTimer, books, hasMore, totalBooks, progress>>

----------------------------------------------------------------------------
(* Actions *)

\* onChange of the search box (line 457), then the effect on searchQuery
\* (lines 46-60): its cleanup clears the pending timer, then the text is either
\* handed to debouncedSearch (lines 33-43) or the results are emptied.
SetSearchQuery(text) ==
    /\ text # searchQuery
    /\ edits < scope.edits
    /\ edits' = edits + 1
    /\ searchQuery' = text
    /\ UNCHANGED <<searchType, filters, favorites, loading, loadingMore, error,
                   currentPage, inflight, dispatched, session, changes, scope>>
    /\ QueryEffect
    /\ ObserverEffect

\* The timeout callback of debouncedSearch (lines 38-42).  debouncedSearch is
\* memoized with no dependencies (line 43), so the performSearch it calls is the
\* first render's: searchType 'title' and the initial filters.
DebounceFire(timeout) ==
    /\ timeout \in debounceTimer.pending
    /\ debounceTimer' = [debounceTimer EXCEPT !.pending = @ \ {timeout}]
    /\ IF ~IsBlank(timeout.query)
       THEN PerformSearch(timeout.query, 0, TRUE, "title", InitialFilters)
       ELSE UNCHANGED <<resVars, netVars>>
    /\ UNCHANGED <<uiVars, favorites, cntVars>>
    /\ ObserverEffect

\* searchBooks (lines 166-168), from the Search button (line 490, disabled
\* while loading) or from Enter in the search box (lines 170-174).
SearchBooks(viaButton) ==
    /\ viaButton => ~loading
    /\ PerformSearch(searchQuery, 0, TRUE, searchType, filters)
    /\ UNCHANGED <<uiVars, favorites, debounceTimer, cntVars>>
    /\ ObserverEffect

\* loadMoreBooks (lines 160-164) of the render the observer closed over.  The
\* observer is recreated whenever hasMore, loadingMore or loading change, so
\* these three are the current ones.
LoadMoreBooks ==
    IF hasMore /\ ~loadingMore /\ ~loading
    THEN PerformSearch(observer.query, observer.page + 1, FALSE,
                       observer.searchType, observer.filters)
    ELSE UNCHANGED <<resVars, netVars>>

\* The observer callback with the trigger element intersecting (lines 67-71).
Intersect ==
    /\ observer.observing
    /\ IF hasMore /\ ~loadingMore /\ ~loading
       THEN LoadMoreBooks
       ELSE UNCHANGED <<resVars, netVars>>
    /\ UNCHANGED <<uiVars, favorites, debounceTimer, cntVars>>
    /\ ObserverEffect

\* A request in flight resolves and performSearch resumes.
Receive(req, resp) ==
    /\ req \in inflight
    /\ resp \in Answers(req.url)
    /\ Resume(req, resp)
    /\ UNCHANGED <<uiVars, favorites, debounceTimer, cntVars>>
    /\ ObserverEffect

\* Line 554: the favorites section shows favorites.slice(0, 3).
FavoritesShown == 3

\* Lines 185-187: isFavorite(book), over the favorites of the render.
IsFavorite(favs, book) == \E i \in 1..Len(favs) : favs[i].key = book.key

\* A toggle that adds the book without looking whether it is there.
FavoritesAfterToggleAdds(favs, book) == Append(favs, book)

\* Lines 176-183: what toggleFavorite(book) hands to setFavorites.
FavoritesAfterToggle(favs, book) ==
    IF IsFavorite(favs, book)
    THEN SelectSeq(favs, LAMBDA fav : fav.key # book.key)
    ELSE Append(favs, book)

\* The books whose card, with its heart button, is on the page: the results
\* (line 586; the model clicks the first MaxCards of them) and the first three
\* favorites (line 554).
Cards ==
    { books[i] : i \in 1..Min(MaxCards, Len(books)) }
        \cup { favorites[i] : i \in 1..Min(FavoritesShown, Len(favorites)) }

\* onClick of the heart of a card (lines 232, 406).
ToggleFavorite(book) ==
    /\ book \in Cards
    /\ favorites' = FavoritesAfterToggle(favorites, book)
    /\ UNCHANGED <<uiVars, resVars, debounceTimer, netVars, cntVars>>
    /\ ObserverEffect

\* onChange of the type select (line 467).
SetSearchType(type) ==
    /\ type # searchType
    /\ changes < scope.changes
    /\ changes' = changes + 1
    /\ searchType' = type
    /\ UNCHANGED <<searchQuery, filters, favorites, loading, loadingMore, error,
                   currentPage, inflight, dispatched, session, edits, scope>>
    /\ QueryEffect
    /\ ObserverEffect

\* onChange of the language select (line 511), of the year input (line 527),
\* and the Clear Filters button (line 535).
SetFilters(flt) ==
    /\ flt # filters
    /\ changes < scope.changes
    /\ changes' = changes + 1
    /\ filters' = flt
    /\ UNCHANGED <<searchQuery, searchType, favorites, loading, loadingMore, error,
                   currentPage, inflight, dispatched, session, edits, scope>>
    /\ QueryEffect
    /\ ObserverEffect

SetLanguage(lang) == SetFilters([filters EXCEPT !.language = lang])
SetPublishYear(year) == SetFilters([filters EXCEPT !.publishYear = year])
ClearFilters == SetFilters(InitialFilters)

----------------------------------------------------------------------------
(* Specifications *)

\* The search box, the searches, the scroll trigger and the responses.
\* searchType and filters are only read by BuildUrl; they keep their initial
\* values here, and SettingsSpec has the behaviours where they change.
Next ==
    \/ \E text \in Texts : SetSearchQuery(text)
    \/ \E timeout \in debounceTimer.pending : DebounceFire(timeout)
    \/ \E viaButton \in BOOLEAN : SearchBooks(viaButton)
    \/ Intersect
    \/ \E req \in inflight : \E resp \in Answers(req.url) : Receive(req, resp)

Spec == Init /\ [][Next]_vars

\* Runs in which every request in flight is answered in the end: fetch settles
\* (a response or a rejection), and the continuation of performSearch is then
\* run by the event loop.
Fairness ==
    WF_vars(\E req \in inflight : \E resp \in Answers(req.url) : Receive(req, resp))

FairInit == InitIn([requests |-> MaxFairRequests, edits |-> MaxFairEdits, changes |-> 0])

FairSpec == FairInit /\ [][Next]_vars /\ Fairness

\* With the heart buttons of the cards, in a smaller scope.
FavoritesInit ==
    InitIn([requests |-> MaxFavRequests, edits |-> MaxFavEdits, changes |-> 0])

FavoritesNext ==
    \/ \E text \in Texts : SetSearchQuery(text)
    \/ \E timeout \in debounceTimer.pending : DebounceFire(timeout)
    \/ \E viaButton \in BOOLEAN : SearchBooks(viaButton)
    \/ Intersect
    \/ \E req \in inflight : \E resp \in Answers(req.url) : Receive(req, resp)
    \/ \E book \in Cards : ToggleFavorite(book)

FavoritesSpec == FavoritesInit /\ [][FavoritesNext]_vars

\* Longer runs over one text change, for what takes four requests to show.
DeepInit == InitIn([requests |-> MaxDeepRequests, edits |-> MaxDeepEdits, changes |-> 0])

DeepSpec == DeepInit /\ [][Next]_vars

\* The same with the type select and the filter controls, in a smaller scope.
SettingsInit ==
    InitIn([requests |-> MaxSettingsRequests, edits |-> MaxSettingsEdits,
            changes |-> MaxChanges])

SettingsNext ==
    \/ \E text \in Texts : SetSearchQuery(text)
    \/ \E timeout \in debounceTimer.pending : DebounceFire(timeout)
    \/ \E viaButton \in BOOLEAN : SearchBooks(viaButton)
    \/ Intersect
    \/ \E req \in inflight : \E resp \in Answers(req.url) : Receive(req, resp)
    \/ \E type \in TypeChoices : SetSearchType(type)
    \/ \E lang \in LanguageChoices : SetLanguage(lang)
    \/ \E year \in YearChoices : SetPublishYear(year)
    \/ ClearFilters

SettingsSpec == SettingsInit /\ [][SettingsNext]_vars


----------------------------------------------------------------------------
(* Properties *)

Continuations(reqs) == { r \in reqs : ~r.isNewSearch }

\* The request that resolves in a step.
Resolves(req) == req \in inflight /\ req \notin inflight'

\* A later new-session search, for another text, was sent while req was in flight.
Superseded(req) == session.id > req.id /\ session.url.text # req.url.text

OnlyWhitespace(text) == \A i \in 1..Len(text) : text[i] = " "

Keys(b) == { b[i].key : i \in 1..Len(b) }

\* C1: when a new-session search for another text was sent while an earlier
\* new-session request was in flight, the response to the earlier request does
\* not change books.
C1_SupersededSearchDiscarded ==
    [][\A req \in inflight :
          Resolves(req) /\ req.isNewSearch /\ Superseded(req) => books' = books]_vars

\* C2: when a new-session search for another query was sent while a continuation
\* was in flight, the continuation's response changes none of books, currentPage,
\* totalBooks and hasMore.
C2_SupersededContinuationDiscarded ==
    [][\A req \in inflight :
          Resolves(req) /\ ~req.isNewSearch /\ Superseded(req)
              => UNCHANGED <<books, currentPage, totalBooks, hasMore>>]_vars

\* C3: hasMore is true only if the page received last in the current session
\* had exactly 20 records and (currentPage + 1) * 20 < totalBooks.
C3_HasMoreOnlyAfterFullPage ==
    hasMore => progress.lastLen = limit /\ (currentPage + 1) * limit < totalBooks

\* C4: at most one continuation request is in flight at a time.  (The claim
\* goes on: and no page index is requested twice as a continuation within one
\* session; two continuations in flight for one page break both halves.)
C4_SingleContinuation == Cardinality(Continuations(inflight)) <= 1

\* C5: no two entries of books have the same key (the catalog returns no key on
\* two pages of one query: Work).
C5_NoDuplicateKeys == Cardinality(Keys(books)) = Len(books)

\* C6: after a new-session page 0 and then k continuations, all received with
\* docs and with nothing else received or emptied in between, books is the
\* concatenation of the received docs in order of arrival, the page received
\* last is page k, and currentPage = k.
C6_PagesConcatenated ==
    progress.pages >= 1 =>
        /\ books = progress.docs
        /\ currentPage = progress.pages - 1
        /\ progress.lastPage = progress.pages - 1

\* C6 witness: pages 0, 1 and 2 of a 45-record result were merged.
C6_Witness ==
    /\ progress.pages = 3
    /\ Len(books) = 45
    /\ currentPage = 2

\* C7: the intersection callback sends no request and changes no state unless
\* hasMore is true, neither loading flag is set and no error is surfaced.
C7_RequestMoreOnlyWhenIdle ==
    [][Intersect =>
          \/ hasMore /\ ~loading /\ ~loadingMore /\ error = ErrNone
          \/ UNCHANGED vars]_vars

\* C8: when the search text was changed after the latest request, a new-session
\* search for the text of that moment, was sent, and no request was sent since,
\* the response to that request changes none of books, totalBooks, hasMore and
\* error.
C8_ResponseAfterEditIgnored ==
    [][\A req \in inflight :
          /\ Resolves(req)
          /\ req.isNewSearch
          /\ req.id = dispatched
          /\ req.url.text # searchQuery
          => UNCHANGED <<books, totalBooks, hasMore, error>>]_vars

\* C9: performSearch called with a text that is empty or only whitespace (by
\* searchBooks for the text in the box, by loadMoreBooks for the text its
\* render had) sets the validation error, sends no request and leaves books,
\* currentPage, hasMore, totalBooks and both loading flags unchanged.
C9_BlankTextRejected ==
    [][(\/ (\E viaButton \in BOOLEAN : SearchBooks(viaButton))
              /\ OnlyWhitespace(searchQuery)
        \/ Intersect /\ hasMore /\ ~loadingMore /\ ~loading
              /\ OnlyWhitespace(observer.query))
        => /\ error' = ErrValidation
           /\ inflight' = inflight
           /\ dispatched' = dispatched
           /\ UNCHANGED <<books, currentPage, hasMore, totalBooks,
                          loading, loadingMore>>]_vars

\* C9 witness: a search was asked for the whitespace-only text, the first text
\* typed, and was rejected.
C9_Witness ==
    /\ searchQuery = <<" ">>
    /\ edits = 1
    /\ error = ErrValidation
    /\ dispatched = 0

\* C10: emptying the search text leaves books empty, hasMore false, totalBooks 0,
\* both loading flags false and no error, with no timer pending and no request
\* sent.
C10_EmptyTextResetsSession ==
    [][searchQuery # <<>> /\ searchQuery' = <<>> =>
          /\ books' = <<>>
          /\ ~hasMore'
          /\ totalBooks' = 0
          /\ ~loading'
          /\ ~loadingMore'
          /\ error' = ErrNone
          /\ debounceTimer'.pending = {}
          /\ inflight' = inflight]_vars

\* C11: at every moment at most one debounced evaluation is pending, and it is
\* the one set last: a change of the text clears the timeout set before it sets
\* its own, so a burst of changes leaves one timeout, for the last text.
C11_OneTimeoutPending ==
    /\ Cardinality(debounceTimer.pending) <= 1
    /\ \A t \in debounceTimer.pending : t.id = debounceTimer.current

\* Two changes of the text and no search sent: the timeout of the first change
\* is gone, the one of the second is pending.
C11_Witness ==
    /\ edits = 2
    /\ dispatched = 0
    /\ debounceTimer.pending = {[id |-> 2, query |-> <<"b">>]}

\* C12: a timeout that runs belongs to the text in the box at that moment; it
\* sends one new-session request (page 0, offset 0) for that text, or, when the
\* text is only whitespace, sends nothing.
C12_TimeoutSearchesCurrentText ==
    [][\A t \in debounceTimer.pending :
         DebounceFire(t) =>
            /\ t.query = searchQuery
            /\ IF OnlyWhitespace(t.query)
               THEN inflight' = inflight /\ dispatched' = dispatched
               ELSE \E req \in inflight' \ inflight :
                       /\ inflight' = inflight \cup {req}
                       /\ req.isNewSearch
                       /\ req.page = 0
                       /\ req.url.offset = 0
                       /\ req.url.text = searchQuery
                       /\ session' = req]_vars

\* The timeout of the one text typed, "a", ran and its request is in flight.
C12_Witness ==
    /\ edits = 1
    /\ searchQuery = <<"a">>
    /\ debounceTimer.pending = {}
    /\ dispatched = 1
    /\ session \in inflight
    /\ session.url.text = <<"a">>

\* C13: once the search type or a filter was changed, a new-session request
\* that is sent by the button or by Enter, or by the timeout of a text typed
\* after that change (its handle is the number of the last change made), is
\* built from the searchType and the filters of that moment.
C13_SearchUsesCurrentSettings ==
    [][\A req \in inflight' \ inflight :
         ( /\ changes > 0
           /\ req.isNewSearch
           /\ \A t \in debounceTimer.pending :
                  DebounceFire(t) => t.id = edits + changes )
         => /\ req.url.param = QueryParam(searchType)
            /\ req.url.language = filters.language
            /\ req.url.year = filters.publishYear]_vars

\* C14: a change of the search type or of a filter sends no request, sets and
\* clears no timeout, and leaves books, currentPage, hasMore, totalBooks, error
\* and both loading flags as they were.
C14_SettingsChangeOnlySettings ==
    [][(searchType' # searchType \/ filters' # filters) =>
          /\ inflight' = inflight
          /\ dispatched' = dispatched
          /\ debounceTimer' = debounceTimer
          /\ UNCHANGED <<books, currentPage, hasMore, totalBooks, error,
                         loading, loadingMore>>]_vars

\* A filter was changed while a text was in the box, its timeout pending and a
\* request for it in flight.
C14_Witness ==
    /\ changes = 1
    /\ filters.language = "eng"
    /\ searchQuery = <<"a">>
    /\ debounceTimer.pending # {}
    /\ loading
    /\ inflight # {}

\* The answers of a request that are failures: a rejected fetch, a non-ok
\* status, a body that does not parse.
Failures(req) == { resp \in Answers(req.url) : resp.outcome = "fail" }

\* C15: when a continuation request fails, books, currentPage and totalBooks
\* stay as they were and the failure message is shown; when a new-session
\* request fails, books is empty afterwards.
C15_FailureKeepsRecords ==
    [][\A req \in inflight : \A resp \in Failures(req) :
         Receive(req, resp) =>
            /\ error' = ErrFailed
            /\ IF req.isNewSearch
               THEN books' = <<>>
               ELSE UNCHANGED <<books, currentPage, totalBooks>>]_vars

\* A new-session search is asked for the text in the box, by the button or
\* Enter, or for its own text by a timeout.
AsksSearch(text) ==
    \/ text = searchQuery /\ \E viaButton \in BOOLEAN : SearchBooks(viaButton)
    \/ \E t \in debounceTimer.pending : t.query = text /\ DebounceFire(t)

\* C16: if every request in flight is answered in the end, a state in which
\* loading or loadingMore is set leads to one in which neither is; a search
\* asked for a text that is not blank while a message is shown sends a
\* new-session request for page 0 of that text and clears the message; and when
\* a new-session request succeeds, books is page 0 of its text.
C16_NoErrorIsTerminal ==
    /\ (loading \/ loadingMore) ~> (~loading /\ ~loadingMore)
    /\ [][\A text \in Texts :
            (error # ErrNone /\ ~OnlyWhitespace(text) /\ AsksSearch(text)) =>
               /\ error' = ErrNone
               /\ \E req \in inflight' \ inflight :
                     /\ req.isNewSearch
                     /\ req.page = 0
                     /\ req.url.text = text]_vars
    /\ [][\A req \in inflight : \A resp \in Answers(req.url) :
            (req.isNewSearch /\ resp.outcome = "ok" /\ Resolves(req)
                /\ Receive(req, resp)) =>
               /\ currentPage' = 0
               /\ Len(books') = Min(limit, resp.numFound)
               /\ \A i \in 1..Len(books') : books'[i] = Work(req.url.text, i - 1)]_vars

\* A search sent while the failure message was shown has succeeded: the message
\* is gone and books is its page 0.
C16_Witness ==
    /\ progress.after = ErrFailed
    /\ progress.inOrder
    /\ progress.pages = 1
    /\ error = ErrNone
    /\ ~loading
    /\ Len(books) = limit

\* C17: in a session of which only its own responses arrived so far, page 0
\* and then the continuations in the order they were sent, each with docs,
\* hasMore after a page is:
\* the page had 20 records and (page + 1) * 20 is less than the total.  So a
\* page 0 of fewer than 20 records leaves hasMore false, and for the text of 45
\* works the pages leave hasMore true, true, false and 20, 40, 45 records.
C17_HasMoreAfterEachPage ==
    (progress.inOrder /\ progress.pages >= 1) =>
        /\ hasMore <=> ( /\ progress.lastLen = 20
                         /\ (progress.lastPage + 1) * 20 < totalBooks )
        /\ (progress.pages = 1 /\ Len(books) < 20) => ~hasMore
        /\ totalBooks = 45 =>
              /\ progress.pages = 1 => (hasMore /\ Len(books) = 20)
              /\ progress.pages = 2 => (hasMore /\ Len(books) = 40)
              /\ progress.pages = 3 => (~hasMore /\ Len(books) = 45)

\* The third page of the text of 45 works has arrived.
C17_Witness ==
    /\ progress.inOrder
    /\ progress.pages = 3
    /\ progress.lastLen = 5
    /\ totalBooks = 45
    /\ ~hasMore

\* What the endpoint answers when nothing matches.
EmptyPage == [outcome |-> "ok", docs |-> <<>>, numFound |-> 0]

\* C18: a response without docs leaves the state that a response with
\* docs = [] and numFound = 0 to the same request would leave: totalBooks 0,
\* hasMore false, the page of the request as currentPage, books empty for a new
\* search and unchanged for a continuation, and the no-results message for a
\* new search only.
C18_NoDocsIsZeroResults ==
    [][\A req \in inflight : \A resp \in Answers(req.url) :
         (resp.outcome = "nodocs" /\ Receive(req, resp)) =>
            /\ totalBooks' = EmptyPage.numFound
            /\ hasMore' = HasMoreAfter(EmptyPage.docs, req.page, EmptyPage.numFound)
            /\ books' = BooksAfter(books, EmptyPage.docs, req.isNewSearch)
            /\ currentPage' = req.page
            /\ error' = ErrorAfter(error, req, EmptyPage)]_vars

\* C19: the response to a new-session request whose docs is empty sets the
\* no-results message; a failure sets the failure message, which is another
\* one; the response to a continuation whose docs is empty sets no message:
\* the one shown stays as it is.
C19_NoResultsOnlyForNewSearch ==
    [][\A req \in inflight :
         Resolves(req) =>
            \A resp \in Answers(req.url) :
               /\ (resp.outcome = "ok" /\ resp.docs = <<>> /\ Receive(req, resp)) =>
                     IF req.isNewSearch
                     THEN /\ error' = "No books found matching your search criteria"
                          /\ error' # ErrFailed
                     ELSE error' = error
               /\ (resp.outcome = "fail" /\ Receive(req, resp)) =>
                     /\ error' = ErrFailed
                     /\ error' # ErrNoResults]_vars

\* The one request of a session, a new search, was answered with an empty page.
C19_Witness ==
    /\ progress.inOrder
    /\ progress.pages = 1
    /\ progress.lastLen = 0
    /\ progress.lastPage = 0
    /\ books = <<>>
    /\ totalBooks = 0
    /\ error = ErrNoResults

\* The records whose heart is on the page or that are favorites.
Records == Cards \cup { favorites[i] : i \in 1..Len(favorites) }

\* C20: whatever the favorites are, for every record whose heart is on the
\* page, toggleFavorite applied once makes isFavorite of the record the
\* negation of what it was, applied twice makes it what it was, and neither
\* changes isFavorite of a record with another key.
C20_ToggleTwiceRestores ==
    \A r \in Cards :
        LET once  == FavoritesAfterToggle(favorites, r)
            twice == FavoritesAfterToggle(once, r)
        IN  /\ IsFavorite(once, r) = ~IsFavorite(favorites, r)
            /\ IsFavorite(twice, r) = IsFavorite(favorites, r)
            /\ \A other \in Records :
                  other.key # r.key =>
                     /\ IsFavorite(once, other) = IsFavorite(favorites, other)
                     /\ IsFavorite(twice, other) = IsFavorite(favorites, other)

\* Two results are favorites, the second one of the list made one first, and a
\* third result is not.
C20_Witness ==
    /\ Len(books) >= 3
    /\ favorites = <<books[2], books[1]>>

\* C21: while the new-session request sent last is in flight, the response to
\* an earlier request that it superseded, success or failure, leaves loading
\* set, leaves loadingMore as it was and shows no message.
C21_LoadingWhileLatestInFlight ==
    [][\A req \in inflight :
         (Resolves(req) /\ Superseded(req) /\ session \in inflight') =>
            /\ loading'
            /\ loadingMore' = loadingMore
            /\ error' = error]_vars

\* The records shown all answer the text of the current session: they came
\* for it or for an earlier request for the same text.
ShowsSessionText ==
    /\ books # <<>>
    /\ \A i \in 1..Len(books) : books[i].key[1] = session.url.text

\* C22: a new-session request that is sent leaves books empty and currentPage
\* 0; a continuation request that is sent asks for the page after the last
\* page received with docs for a request of the current session, so it is not
\* sent when no page of the session was received.  A continuation sent while
\* the page shows records that an earlier request for the same text brought
\* is not held against the claim.
C22_ContinuationAsksNextPage ==
    [][\A req \in inflight' \ inflight :
         IF req.isNewSearch
         THEN books' = <<>> /\ currentPage' = 0
         ELSE \/ progress.lastPage >= 0 /\ req.page = progress.lastPage + 1
              \/ progress.lastPage < 0 /\ ShowsSessionText]_vars

\* C23: loading and loadingMore are never both set.
C23_OneLoadingFlag == ~(loading /\ loadingMore)

\* C24: a continuation request that is sent asks the text, the search type and
\* the filters of the page-0 request that started the current session.
C24_ContinuationSameQuery ==
    [][\A req \in inflight' \ inflight :
         ~req.isNewSearch =>
            /\ req.url.text = session.url.text
            /\ req.url.param = session.url.param
            /\ req.url.language = session.url.language
            /\ req.url.year = session.url.year]_vars

============================================================================
